---- MODULE Spec2Model ----
(***************************************************************************)
(* A model of play_2048.py: the GameAI class that plays 2048 with a        *)
(* depth-limited expectimax search.                                        *)
(*                                                                         *)
(* A grid is a sequence of 4 rows, each a sequence of 4 integers (index 1  *)
(* here is index 0 of the Python lists).  Scores are Python floats in the  *)
(* source; here they are exact rationals (0.1 is 1/10, 0.9 is 9/10), kept  *)
(* as <<w, n, d>> = w + n/d with 0 <= n < d, gcd(n, d) = 1.                *)
(***************************************************************************)
EXTENDS Integers, Sequences, FiniteSets, TLC

VARIABLES
    stack,          \* the call stack: one frame per running call, the last on top
    heap,           \* the grid lists alive, by reference: a frame's g indexes it
    ret,            \* the value the last call returned
    state_grid,     \* the game's state['grid'] in localStorage
    sent,           \* the last key make_move sent to the page
    error           \* the exception that ended the program ("none": none)

vars == <<stack, heap, ret, state_grid, sent, error>>

-----------------------------------------------------------------------------
(* Keys and small helpers *)

LEFT == "LEFT"
RIGHT == "RIGHT"
UP == "UP"
DOWN == "DOWN"

\* The order every loop over the directions uses (lines 42, 180, 221).
Directions == <<LEFT, RIGHT, UP, DOWN>>

\* The order of play_game's own validity check (line 239).
PlayDirections == <<UP, DOWN, LEFT, RIGHT>>

Idx == 1..4

Reverse(s) == [k \in 1..Len(s) |-> s[Len(s) + 1 - k]]

Zeros(n) == [k \in 1..n |-> 0]

RECURSIVE SumSeq(_)
SumSeq(s) == IF s = <<>> THEN 0 ELSE Head(s) + SumSeq(Tail(s))

Abs(x) == IF x < 0 THEN -x ELSE x

\* The element of a one-element set: The({ e(x) : x \in {v} }) is e(v) with v
\* computed once, the way Python binds a local.
The(S) == CHOOSE y \in S : TRUE

\* Cell k of the row-major order (k = 4 * i + j + 1 for the source's i, j).
RowOf(k) == ((k - 1) \div 4) + 1
ColOf(k) == ((k - 1) % 4) + 1

-----------------------------------------------------------------------------
(* Exact arithmetic on scores *)

RECURSIVE Gcd(_, _)
Gcd(a, b) == IF b = 0 THEN a ELSE Gcd(b, a % b)

Lcm(a, b) == (a \div Gcd(a, b)) * b

\* num/den (den > 0) as w + n/d.
Rat(num, den) ==
    LET w == num \div den
        r == num % den
        g == Gcd(r, den)
    IN  IF r = 0 THEN <<w, 0, 1>> ELSE <<w, r \div g, den \div g>>

\* The operands are values before their parts are read: a and b below.
RAdd(x, y) ==
    The({ LET L == Lcm(a[3], b[3])
              f == Rat(a[2] * (L \div a[3]) + b[2] * (L \div b[3]), L)
          IN  <<a[1] + b[1] + f[1], f[2], f[3]>> : a \in {x}, b \in {y} })

RMul(k, x) ==
    The({ LET f == Rat(k * a[2], a[3])
          IN  <<k * a[1] + f[1], f[2], f[3]>> : a \in {x} })

RDiv(x, k) ==
    The({ LET q == a[1] \div k
              r == a[1] % k
              f == Rat(r * a[3] + a[2], a[3] * k)
          IN  <<q + f[1], f[2], f[3]>> : a \in {x} })

RGt(x, y) ==
    \E a \in {x} : \E b \in {y} :
        LET L == Lcm(a[3], b[3])
        IN  \/ a[1] > b[1]
            \/ a[1] = b[1] /\ a[2] * (L \div a[3]) > b[2] * (L \div b[3])

RGe(x, y) == x = y \/ RGt(x, y)

\* float('-inf'): no score has denominator 0.
NegInf == <<0, 0, 0>>

\* The comparison of lines 185 and 228 written >=: a later equal score wins.
ScoreGe(score, best) == IF best = NegInf THEN TRUE ELSE RGe(score, best)

\* score > best_score, where best_score may be float('-inf') (lines 185, 228).
ScoreGt(score, best) == IF best = NegInf THEN TRUE ELSE RGt(score, best)

-----------------------------------------------------------------------------
(* simulate_move *)

\* Whether rows shares its row lists with the caller's grid: line 50 copies
\* every row, so it does not.
RowsShareGrid == FALSE

\* The merge loop without the j += 1 after a merge: the merged tile is
\* compared with its next neighbour again.
RECURSIVE MergeAdjacentRemerge(_, _)
MergeAdjacentRemerge(non_zero, j) ==
    IF j < Len(non_zero)
    THEN IF non_zero[j] = non_zero[j + 1]
         THEN MergeAdjacentRemerge(
                  [k \in 1..(Len(non_zero) - 1) |->
                      IF k < j THEN non_zero[k]
                      ELSE IF k = j THEN non_zero[j] * 2
                      ELSE non_zero[k + 1]],
                  j)
         ELSE MergeAdjacentRemerge(non_zero, j + 1)
    ELSE non_zero

\* The merge loop without the *= 2 of line 67: one tile of the pair is
\* dropped and the other keeps its value.
RECURSIVE MergeAdjacentNoDouble(_, _)
MergeAdjacentNoDouble(non_zero, j) ==
    IF j < Len(non_zero)
    THEN IF non_zero[j] = non_zero[j + 1]
         THEN MergeAdjacentNoDouble(
                  [k \in 1..(Len(non_zero) - 1) |->
                      IF k < j THEN non_zero[k] ELSE non_zero[k + 1]],
                  j + 1)
         ELSE MergeAdjacentNoDouble(non_zero, j + 1)
    ELSE non_zero

\* The while loop of lines 64-69 (and 93-98), from index j on.
RECURSIVE MergeAdjacent(_, _)
MergeAdjacent(non_zero, j) ==
    IF j < Len(non_zero)
    THEN IF non_zero[j] = non_zero[j + 1]
         THEN MergeAdjacent(
                  [k \in 1..(Len(non_zero) - 1) |->
                      IF k < j THEN non_zero[k]
                      ELSE IF k = j THEN non_zero[j] * 2
                      ELSE non_zero[k + 1]],
                  j + 1)
         ELSE MergeAdjacent(non_zero, j + 1)
    ELSE non_zero

\* The tiles that the merges of that loop produce (line 67), in order.
RECURSIVE MergedTiles(_, _)
MergedTiles(non_zero, j) ==
    IF j < Len(non_zero)
    THEN IF non_zero[j] = non_zero[j + 1]
         THEN <<non_zero[j] * 2>> \o
              MergedTiles(
                  [k \in 1..(Len(non_zero) - 1) |->
                      IF k < j THEN non_zero[k]
                      ELSE IF k = j THEN non_zero[j] * 2
                      ELSE non_zero[k + 1]],
                  j + 1)
         ELSE MergedTiles(non_zero, j + 1)
    ELSE <<>>

\* The non-zero tiles of line k (a row for Left and Right, a column for Up
\* and Down) as the merge loop receives them (lines 55-61 and 84-90).
Oriented(g, k, dir) ==
    LET line == IF dir \in {LEFT, RIGHT} THEN g[k] ELSE [i \in Idx |-> g[i][k]]
        tiles == SelectSeq(line, LAMBDA x : x # 0)
    IN  IF dir \in {RIGHT, DOWN} THEN Reverse(tiles) ELSE tiles

\* The tiles that the merges of simulate_move(g, dir) produce.
MoveMerges(g, dir) ==
    MergedTiles(Oriented(g, 1, dir), 1) \o MergedTiles(Oriented(g, 2, dir), 1)
    \o MergedTiles(Oriented(g, 3, dir), 1) \o MergedTiles(Oriented(g, 4, dir), 1)

\* One pass of the row loop, lines 55-79.
MoveRow(row, dir) ==
    LET non_zero == SelectSeq(row, LAMBDA x : x # 0)
        oriented == IF dir = RIGHT THEN Reverse(non_zero) ELSE non_zero
        merged == MergeAdjacent(oriented, 1)
        back == IF dir = RIGHT THEN Reverse(merged) ELSE merged
    IN  IF non_zero = <<>> THEN row
        ELSE IF dir = LEFT THEN back \o Zeros(4 - Len(back))
        ELSE Zeros(4 - Len(back)) \o back

\* One pass of the column loop, lines 84-108: the padded column.
MoveCol(rows, j, dir) ==
    LET column == [i \in Idx |-> rows[i][j]]
        col == SelectSeq(column, LAMBDA x : x # 0)
        oriented == IF dir = DOWN THEN Reverse(col) ELSE col
        merged == MergeAdjacent(oriented, 1)
        back == IF dir = DOWN THEN Reverse(merged) ELSE merged
    IN  IF col = <<>> THEN column
        ELSE IF dir = UP THEN back \o Zeros(4 - Len(back))
        ELSE Zeros(4 - Len(back)) \o back

\* The grid simulate_move returns.
simulate_move(g, dir) ==
    IF dir \in {LEFT, RIGHT}
    THEN [i \in Idx |-> MoveRow(g[i], dir)]
    ELSE IF dir \in {UP, DOWN}
    THEN LET cols == [j \in Idx |-> MoveCol(g, j, dir)]
         IN  [i \in Idx |-> [j \in Idx |-> cols[j][i]]]
    ELSE g

\* The caller's grid once simulate_move(g, dir) has returned: every write of
\* the function goes to rows.
GridAfterSimulate(g, dir) ==
    IF RowsShareGrid THEN simulate_move(g, dir) ELSE g

-----------------------------------------------------------------------------
(* is_move_valid, get_possible_moves *)

\* is_move_valid with range(3) for the rows: the last row is not compared.
is_move_valid_three_rows(g, dir) ==
    LET new_grid == simulate_move(g, dir)
    IN  \E i \in 1..3 : \E j \in Idx : new_grid[i][j] # g[i][j]

is_move_valid(g, dir) ==
    LET new_grid == simulate_move(g, dir)
    IN  \E i \in Idx : \E j \in Idx : new_grid[i][j] # g[i][j]

get_possible_moves(g) ==
    SelectSeq(Directions, LAMBDA d : simulate_move(g, d) # g)

-----------------------------------------------------------------------------
(* evaluate_grid *)

WeightEmpty == Rat(10, 1)
WeightMonotonicity == Rat(1, 1)
WeightSmoothness == Rat(1, 10)
WeightMaxPosition == Rat(100, 1)

\* Lines 132: the number of zero cells.
EmptyCount(g) == Cardinality({c \in Idx \X Idx : g[c[1]][c[2]] = 0})

\* Lines 135-141: the row-major scan for the largest tile, from cell k on
\* (cell k is row RowOf(k), column ColOf(k)); <<0, 0>> is the
\* source's (-1, -1).
RECURSIVE MaxScan(_, _, _, _)
MaxScan(g, k, max_val, max_pos) ==
    IF k > 16 THEN max_pos
    ELSE LET i == RowOf(k)
             j == ColOf(k)
         IN  IF g[i][j] > max_val
             THEN MaxScan(g, k + 1, g[i][j], <<i, j>>)
             ELSE MaxScan(g, k + 1, max_val, max_pos)

MaxPos(g) == MaxScan(g, 1, 0, <<0, 0>>)

Corners == {<<1, 1>>, <<1, 4>>, <<4, 1>>, <<4, 4>>}

\* Line 144.
MaxBonus(g) == IF MaxPos(g) \in Corners THEN 1 ELSE 0

\* Lines 147-154: rows only, both directions.
Monotonicity(g) ==
    Cardinality({c \in Idx \X (1..3) : g[c[1]][c[2]] >= g[c[1]][c[2] + 1]})
  + Cardinality({c \in Idx \X (2..4) : g[c[1]][c[2]] >= g[c[1]][c[2] - 1]})

\* Lines 157-163.
Smoothness(g) ==
    0 - SumSeq([k \in 1..16 |->
            LET i == RowOf(k)
                j == ColOf(k)
            IN  (IF j < 4 THEN Abs(g[i][j] - g[i][j + 1]) ELSE 0)
              + (IF i < 4 THEN Abs(g[i][j] - g[i + 1][j]) ELSE 0)])

\* The weighted sum with the empty-cell term subtracted.
WeightedSumEmptyPenalty(empty, mono, smooth, max_bonus) ==
    RAdd(RAdd(RAdd(RMul(0 - empty, WeightEmpty),
                   RMul(mono, WeightMonotonicity)),
              RMul(smooth, WeightSmoothness)),
         RMul(max_bonus, WeightMaxPosition))

\* The weighted sum of lines 166-171.
WeightedSum(empty, mono, smooth, max_bonus) ==
    RAdd(RAdd(RAdd(RMul(empty, WeightEmpty),
                   RMul(mono, WeightMonotonicity)),
              RMul(smooth, WeightSmoothness)),
         RMul(max_bonus, WeightMaxPosition))

evaluate_grid(g) ==
    WeightedSum(EmptyCount(g), Monotonicity(g), Smoothness(g), MaxBonus(g))

-----------------------------------------------------------------------------
(* expectimax_search *)

\* The probabilities of lines 204 and 208, and the tiles of lines 203, 207.
Prob2 == Rat(9, 10)
Prob4 == Rat(1, 10)

\* p * x for a probability p.
RProd(p, x) == RDiv(RMul(p[1] * p[3] + p[2], x), p[3])

\* Lines 190-194: the empty cells in row-major order.
EmptyCells(g) ==
    SelectSeq([k \in 1..16 |-> <<RowOf(k), ColOf(k)>>],
              LAMBDA c : g[c[1]][c[2]] = 0)

\* grid[i][j] = v, in place.
SetCell(g, c, v) == [g EXCEPT ![c[1]][c[2]] = v]

\* Line 211 left out: the cell keeps the 4 of line 207.
ResetCellSkipped(g, c) == g

\* Line 211.
ResetCell(g, c) == SetCell(g, c, 0)

-----------------------------------------------------------------------------
(* get_grid and the constants of the search *)

\* Line 14.
max_depth == 3

\* Python's None (get_best_move's best_move before any move is kept).
NoMove == "None"

\* Python's s[a:b] (0-based, clipped to the list).
Slice(s, a, b) ==
    LET hi == IF b < Len(s) THEN b ELSE Len(s)
    IN  IF a >= hi THEN <<>> ELSE SubSeq(s, a + 1, hi)

\* Line 33.
get_grid(grid_1d) == [i \in Idx |-> Slice(grid_1d, 4 * (i - 1), 4 * (i - 1) + 4)]

\* Every grid[i][j] with i, j in range(4) exists: evaluate_grid, the column
\* branch of simulate_move and the chance node index all of them, and raise
\* IndexError otherwise.
Shaped(g) == \A i \in Idx : Len(g[i]) = 4

\* Line 232 without the default: best_move is returned as it is.
DefaultMoveNone(best) == best

\* Line 232.
DefaultMove(best) == IF best # NoMove THEN best ELSE LEFT

\* The caller's grid after the four simulate_move calls of get_possible_moves.
RECURSIVE GridAfterMoves(_, _)
GridAfterMoves(g, k) ==
    IF k > Len(Directions) THEN g
    ELSE GridAfterMoves(GridAfterSimulate(g, Directions[k]), k + 1)

-----------------------------------------------------------------------------
(* The call stack *)

\* A call of fn on the grid list heap[g], at position pc.  entry is the value
\* of that list when the call was made; k, acc, best, cells and scores are
\* the locals of the loops (the loop index, best_score or total_score,
\* best_move, empty_cells, and the move_score of each direction searched);
\* val is the value the call is about to return.
Frame(fn, g, entry, dir, d, mv) ==
    [fn |-> fn, pc |-> "start", g |-> g, entry |-> entry, dir |-> dir,
     depth |-> d, move |-> mv, k |-> 1, acc |-> NegInf, best |-> NoMove,
     cells |-> <<>>, scores |-> <<>>, val |-> NoMove]

Top == stack[Len(stack)]

At(fn, pc) == stack # <<>> /\ Top.fn = fn /\ Top.pc = pc

Replace(f) == [stack EXCEPT ![Len(stack)] = f]

Front(s) == SubSeq(s, 1, Len(s) - 1)

\* A return statement: the frame is popped and its value handed to the caller.
\* The outermost call stays, as "done", with the grid it was given.
Return ==
    /\ stack # <<>>
    /\ Top.pc = "return"
    /\ ret' = Top.val
    /\ IF Len(stack) = 1
       THEN /\ stack' = Replace([Top EXCEPT !.pc = "done"])
            /\ heap' = heap
       ELSE /\ stack' = Front(stack)
            /\ heap' = IF Top.fn = "get_best_move" THEN Front(heap) ELSE heap
    /\ UNCHANGED <<state_grid, sent, error>>

-----------------------------------------------------------------------------
(* The calls without a loop of their own: one step each *)

SimulateMove ==
    /\ At("simulate_move", "start")
    /\ heap' = [heap EXCEPT ![Top.g] = GridAfterSimulate(@, Top.dir)]
    /\ stack' = Replace([Top EXCEPT !.pc = "return",
                                    !.val = simulate_move(heap[Top.g], Top.dir)])
    /\ UNCHANGED <<ret, state_grid, sent, error>>

IsMoveValid ==
    /\ At("is_move_valid", "start")
    /\ heap' = [heap EXCEPT ![Top.g] = GridAfterSimulate(@, Top.dir)]
    /\ stack' = Replace([Top EXCEPT !.pc = "return",
                                    !.val = is_move_valid(heap[Top.g], Top.dir)])
    /\ UNCHANGED <<ret, state_grid, sent, error>>

GetPossibleMoves ==
    /\ At("get_possible_moves", "start")
    /\ heap' = [heap EXCEPT ![Top.g] = GridAfterMoves(@, 1)]
    /\ stack' = Replace([Top EXCEPT !.pc = "return",
                                    !.val = get_possible_moves(heap[Top.g])])
    /\ UNCHANGED <<ret, state_grid, sent, error>>

EvaluateGrid ==
    /\ At("evaluate_grid", "start")
    /\ stack' = Replace([Top EXCEPT !.pc = "return",
                                    !.val = evaluate_grid(heap[Top.g])])
    /\ UNCHANGED <<heap, ret, state_grid, sent, error>>

-----------------------------------------------------------------------------
(* expectimax_search, lines 173-213 *)

\* Line 187 without the fallback: best_score is returned as it is.
PlayerResultNoFallback(best_score, g) == best_score

\* Line 187.
PlayerResult(best_score, g) ==
    IF best_score # NegInf THEN best_score ELSE evaluate_grid(g)

\* A call expectimax_search(heap[g], d, mv): the list is passed by reference.
SearchCall(h, g, d, mv) == Frame("expectimax_search", g, h[g], NoMove, d, mv)

\* Lines 175-179 and 190-199.
SearchStart ==
    /\ At("expectimax_search", "start")
    /\ LET g == heap[Top.g]
           empty_cells == EmptyCells(g)
       IN  stack' = Replace(
               IF Top.depth = 0
               THEN [Top EXCEPT !.pc = "return", !.val = evaluate_grid(g)]
               ELSE IF Top.move
               THEN [Top EXCEPT !.pc = "player", !.k = 1, !.acc = NegInf]
               ELSE IF empty_cells = <<>>
               THEN [Top EXCEPT !.pc = "return", !.val = evaluate_grid(g)]
               ELSE [Top EXCEPT !.pc = "chance", !.cells = empty_cells,
                                !.k = 1, !.acc = Rat(0, 1)])
    /\ UNCHANGED <<heap, ret, state_grid, sent, error>>

\* Lines 180-184 and 187: the head of the player loop, at direction k.
PlayerNext ==
    /\ At("expectimax_search", "player")
    /\ IF Top.k > Len(Directions)
       THEN /\ stack' = Replace([Top EXCEPT
                           !.pc = "return",
                           !.val = PlayerResult(Top.acc, heap[Top.g])])
            /\ heap' = heap
       ELSE LET dir == Directions[Top.k]
                new_grid == simulate_move(heap[Top.g], dir)
                after == [heap EXCEPT ![Top.g] = GridAfterSimulate(@, dir)]
            IN  IF new_grid = after[Top.g]
                THEN /\ stack' = Replace([Top EXCEPT !.k = @ + 1])
                     /\ heap' = after
                ELSE /\ heap' = Append(after, new_grid)
                     /\ stack' = Append(Replace([Top EXCEPT !.pc = "player_ret"]),
                                        SearchCall(heap', Len(heap'),
                                                   Top.depth - 1, FALSE))
    /\ UNCHANGED <<ret, state_grid, sent, error>>

\* Lines 184-186: the recursive call has returned score; new_grid is dropped.
PlayerReturned ==
    /\ At("expectimax_search", "player_ret")
    /\ stack' = Replace([Top EXCEPT !.pc = "player", !.k = @ + 1,
                                    !.acc = IF ScoreGt(ret, @) THEN ret ELSE @])
    /\ heap' = Front(heap)
    /\ UNCHANGED <<ret, state_grid, sent, error>>

\* Lines 201-204 and 213: the head of the chance loop, at empty cell k.
ChanceNext ==
    /\ At("expectimax_search", "chance")
    /\ IF Top.k > Len(Top.cells)
       THEN /\ stack' = Replace([Top EXCEPT
                           !.pc = "return",
                           !.val = RDiv(Top.acc, Len(Top.cells))])
            /\ heap' = heap
       ELSE /\ heap' = [heap EXCEPT ![Top.g] = SetCell(@, Top.cells[Top.k], 2)]
            /\ stack' = Append(Replace([Top EXCEPT !.pc = "chance_2"]),
                               SearchCall(heap', Top.g, Top.depth - 1, TRUE))
    /\ UNCHANGED <<ret, state_grid, sent, error>>

\* Lines 204-208: the search with a 2 has returned; now a 4.
ChanceAfter2 ==
    /\ At("expectimax_search", "chance_2")
    /\ heap' = [heap EXCEPT ![Top.g] = SetCell(@, Top.cells[Top.k], 4)]
    /\ stack' = Append(Replace([Top EXCEPT !.pc = "chance_4",
                                           !.acc = RAdd(@, RProd(Prob2, ret))]),
                       SearchCall(heap', Top.g, Top.depth - 1, TRUE))
    /\ UNCHANGED <<ret, state_grid, sent, error>>

\* Lines 208-211: the search with a 4 has returned; the cell is reset.
ChanceAfter4 ==
    /\ At("expectimax_search", "chance_4")
    /\ heap' = [heap EXCEPT ![Top.g] = ResetCell(@, Top.cells[Top.k])]
    /\ stack' = Replace([Top EXCEPT !.pc = "chance", !.k = @ + 1,
                                    !.acc = RAdd(@, RProd(Prob4, ret))])
    /\ UNCHANGED <<ret, state_grid, sent, error>>

Search ==
    \/ SearchStart
    \/ PlayerNext
    \/ PlayerReturned
    \/ ChanceNext
    \/ ChanceAfter2
    \/ ChanceAfter4

-----------------------------------------------------------------------------
(* get_best_move, lines 215-232 *)

\* Lines 217-219: the grid is read from the page, whatever it holds.
BestStart ==
    /\ At("get_best_move", "start")
    /\ LET grid == get_grid(state_grid)
       IN  /\ heap' = Append(heap, grid)
           /\ stack' = Replace([Top EXCEPT !.pc = "loop", !.g = Len(heap'),
                                           !.entry = grid, !.k = 1,
                                           !.acc = NegInf, !.best = NoMove])
    /\ UNCHANGED <<ret, state_grid, sent, error>>

\* Lines 221-227 and 232: the head of the loop, at direction k.  On a grid
\* with a short row (a list shorter than 16) the Left and Right iterations
\* run, and the column loop of simulate_move (line 86) raises IndexError in
\* the Up iteration: the exception leaves get_best_move and play_game.
BestNext ==
    /\ At("get_best_move", "loop")
    /\ error' = IF /\ Top.k <= Len(Directions)
                   /\ Directions[Top.k] \in {UP, DOWN}
                   /\ ~Shaped(heap[Top.g])
                THEN "IndexError" ELSE error
    /\ IF Top.k > Len(Directions)
       THEN /\ stack' = Replace([Top EXCEPT !.pc = "return",
                                            !.val = DefaultMove(Top.best)])
            /\ heap' = heap
       ELSE IF Directions[Top.k] \in {UP, DOWN} /\ ~Shaped(heap[Top.g])
       THEN /\ stack' = <<>>
            /\ heap' = <<>>
       ELSE LET dir == Directions[Top.k]
                new_grid == simulate_move(heap[Top.g], dir)
                after == [heap EXCEPT ![Top.g] = GridAfterSimulate(@, dir)]
            IN  IF new_grid = after[Top.g]
                THEN /\ stack' = Replace([Top EXCEPT !.k = @ + 1])
                     /\ heap' = after
                ELSE /\ heap' = Append(after, new_grid)
                     /\ stack' = Append(Replace([Top EXCEPT !.pc = "loop_ret"]),
                                        SearchCall(heap', Len(heap'),
                                                   max_depth, FALSE))
    /\ UNCHANGED <<ret, state_grid, sent>>

\* Lines 227-230: the search has returned move_score.
BestReturned ==
    /\ At("get_best_move", "loop_ret")
    /\ stack' = Replace([Top EXCEPT
                    !.pc = "loop", !.k = @ + 1,
                    !.scores = Append(@, <<Directions[Top.k], ret>>),
                    !.acc = IF ScoreGt(ret, @) THEN ret ELSE @,
                    !.best = IF ScoreGt(ret, Top.acc) THEN Directions[Top.k]
                             ELSE @])
    /\ heap' = Front(heap)
    /\ UNCHANGED <<ret, state_grid, sent, error>>

BestMove ==
    \/ BestStart
    \/ BestNext
    \/ BestReturned

-----------------------------------------------------------------------------
(* play_game, lines 234-249, and the page *)

\* Lines 237-248: one pass of the loop up to the call of get_best_move.  A
\* list shorter than 16 gives a short row, and is_move_valid(grid, Keys.UP),
\* the first call of line 240, raises IndexError in the column loop of
\* simulate_move (line 86).
PlayPoll ==
    /\ At("play_game", "start")
    /\ LET grid == get_grid(state_grid)
       IN  IF ~Shaped(grid)
           THEN /\ heap' = <<>>
                /\ stack' = <<>>
                /\ error' = "IndexError"
           ELSE /\ heap' = <<grid>>
                /\ error' = error
                /\ IF SelectSeq(PlayDirections,
                                LAMBDA d : is_move_valid(grid, d)) = <<>>
                   THEN stack' = Replace([Top EXCEPT !.pc = "return", !.g = 1,
                                                     !.entry = grid])
                   ELSE stack' = Append(
                            Replace([Top EXCEPT !.pc = "dispatch", !.g = 1,
                                                !.entry = grid]),
                            Frame("get_best_move", 0, <<>>, NoMove, 0, FALSE))
    /\ UNCHANGED <<ret, state_grid, sent>>

\* Lines 248-249 and 23-27: best_move is sent to the page.
PlayDispatch ==
    /\ At("play_game", "dispatch")
    /\ sent' = ret
    /\ stack' = Replace([Top EXCEPT !.pc = "start", !.best = ret])
    /\ UNCHANGED <<heap, ret, state_grid, error>>

-----------------------------------------------------------------------------
(* The grids the specifications run on *)

\* Tiles up to 2^MaxTileExp in the grids of simulate_move.
MaxTileExp == 2

\* The greatest depth expectimax_search is called with directly.
SearchDepth == 3

RECURSIVE Pow2(_)
Pow2(e) == IF e = 0 THEN 1 ELSE 2 * Pow2(e - 1)

TileValues == {0} \cup {Pow2(e) : e \in 1..MaxTileExp}

DirectionSet == {LEFT, RIGHT, UP, DOWN}

Transpose(g) == [i \in Idx |-> [j \in Idx |-> g[j][i]]]

Flat(g) == [k \in 1..16 |-> g[RowOf(k)][ColOf(k)]]

\* Every line of tiles as the first row and every line of empty cells and 2s
\* as the third, the other rows empty; and the same grids with the lines as
\* columns.
MoveGrids ==
    LET byRows == {<<a, Zeros(4), b, Zeros(4)>> :
                      a \in [Idx -> TileValues], b \in [Idx -> {0, 2}]}
    IN  byRows \cup {Transpose(g) : g \in byRows}

\* Large tiles: 128 in a corner, and every filling of the opposite 2 x 2
\* block with empty cells, 32s and 64s.
HighTiles == {0, 32, 64}

HighGrids ==
    {<<<<128, 0, 0, 0>>, <<0, 0, 0, 0>>, <<0, 0, a, b>>, <<0, 0, c, d>>>> :
        a \in HighTiles, b \in HighTiles, c \in HighTiles, d \in HighTiles}

\* Every line of tiles as the first row or the first column of an empty grid.
OneLineGrids ==
    LET byRows == {<<a, Zeros(4), Zeros(4), Zeros(4)>> : a \in [Idx -> TileValues]}
    IN  byRows \cup {Transpose(g) : g \in byRows}

EvalGrids == OneLineGrids \cup HighGrids

\* A full grid on which no direction moves anything.
Checkerboard ==
    <<<<2, 4, 2, 4>>, <<4, 2, 4, 2>>, <<2, 4, 2, 4>>, <<4, 2, 4, 2>>>>

\* The grid of the end-to-end scenario: one 2 in the top left corner.
SingleTile ==
    <<<<2, 0, 0, 0>>, <<0, 0, 0, 0>>, <<0, 0, 0, 0>>, <<0, 0, 0, 0>>>>

\* The checkerboard with three of its cells empty, 2 or 4, and the single
\* tile.
SearchGrids ==
    {SetCell(SetCell(SetCell(Checkerboard, <<1, 2>>, a), <<2, 2>>, b),
             <<4, 4>>, c) : a \in {0, 2, 4}, b \in {0, 2, 4}, c \in {0, 2, 4}}
    \cup {SingleTile}

\* Grids whose Left and Right results mirror each other.
MirrorGrids ==
    {<<<<2, 4, 4, 2>>, <<2, 4, 4, 2>>, <<2, 4, 4, 2>>, <<8, 4, 4, 8>>>>,
     <<<<2, 4, 4, 2>>, <<2, 4, 4, 2>>, <<2, 4, 4, 2>>, <<0, 2, 2, 0>>>>}

BestGrids == SearchGrids \cup MirrorGrids

\* What the page may hold: a game that is over, games that are not, a grid
\* with a negative number, and a list one number short.
ExtGrids ==
    {Flat(Checkerboard),
     Flat(SetCell(Checkerboard, <<4, 4>>, 0)),
     Flat(SetCell(Checkerboard, <<1, 2>>, 2)),
     Flat(SetCell(SetCell(Checkerboard, <<4, 4>>, 0), <<1, 1>>, -2)),
     Front(Flat(Checkerboard))}

\* The page: its game changes state['grid'] (a key was sent, a tile spawned,
\* a new game began).  The program reads it in PlayPoll and in BestStart
\* only, so a change matters only as what the next read finds, and the page
\* steps only where a read is next.
PageChanges ==
    /\ At("play_game", "start") \/ At("get_best_move", "start")
    /\ state_grid' \in ExtGrids \ {state_grid}
    /\ UNCHANGED <<stack, heap, ret, sent, error>>

-----------------------------------------------------------------------------
(* The specifications *)

\* The play_game loop against the page.
Init ==
    /\ state_grid \in ExtGrids
    /\ stack = <<Frame("play_game", 0, <<>>, NoMove, 0, FALSE)>>
    /\ heap = <<>>
    /\ ret = NoMove
    /\ sent = NoMove
    /\ error = "none"

Next ==
    \/ PlayPoll
    \/ PlayDispatch
    \/ PageChanges
    \/ BestMove
    \/ Search
    \/ Return

Spec == Init /\ [][Next]_vars

\* get_best_move alone, on every grid of BestGrids.
InitBest ==
    /\ state_grid \in {Flat(g) : g \in BestGrids}
    /\ stack = <<Frame("get_best_move", 0, <<>>, NoMove, 0, FALSE)>>
    /\ heap = <<>>
    /\ ret = NoMove
    /\ sent = NoMove
    /\ error = "none"

NextBest ==
    \/ BestMove
    \/ Search
    \/ Return

SpecBest == InitBest /\ [][NextBest]_vars

\* The depths a grid of SearchGrids is searched to: up to SearchDepth, and
\* the single tile, with its 15 empty cells, up to the max_depth of the
\* program.
SearchDepths(g) ==
    IF g = SingleTile /\ max_depth < SearchDepth
    THEN 0..max_depth ELSE 0..SearchDepth

\* One call of expectimax_search or of simulate_move on a grid of SearchGrids.
InitSearch ==
    /\ state_grid = <<>>
    /\ ret = NoMove
    /\ sent = NoMove
    /\ error = "none"
    /\ \E g \in SearchGrids :
          /\ heap = <<g>>
          /\ \/ \E d \in SearchDepths(g) : \E mv \in BOOLEAN :
                   stack = <<SearchCall(heap, 1, d, mv)>>
             \/ \E dir \in DirectionSet :
                   stack = <<Frame("simulate_move", 1, g, dir, 0, FALSE)>>

NextSearch ==
    \/ SimulateMove
    \/ Search
    \/ Return

SpecSearch == InitSearch /\ [][NextSearch]_vars

\* One call of simulate_move, is_move_valid, get_possible_moves or
\* evaluate_grid.
InitMove ==
    /\ state_grid = <<>>
    /\ ret = NoMove
    /\ sent = NoMove
    /\ error = "none"
    /\ \/ \E g \in MoveGrids : \E dir \in DirectionSet :
             \E fn \in {"simulate_move", "is_move_valid"} :
                /\ heap = <<g>>
                /\ stack = <<Frame(fn, 1, g, dir, 0, FALSE)>>
       \/ \E g \in MoveGrids :
             /\ heap = <<g>>
             /\ stack = <<Frame("get_possible_moves", 1, g, NoMove, 0, FALSE)>>
       \/ \E g \in EvalGrids :
             /\ heap = <<g>>
             /\ stack = <<Frame("evaluate_grid", 1, g, NoMove, 0, FALSE)>>

NextMove ==
    \/ SimulateMove
    \/ IsMoveValid
    \/ GetPossibleMoves
    \/ EvaluateGrid
    \/ Return

SpecMove == InitMove /\ [][NextMove]_vars

-----------------------------------------------------------------------------
(* Properties *)

\* The outermost call is fn and has returned: ret is its value, Call.entry the
\* grid it was given, Call.dir its direction.
Call == stack[1]

Done(fn) == Len(stack) = 1 /\ Call.fn = fn /\ Call.pc = "done"

\* Greedy pairing from the front: a pair of equal neighbours becomes one tile
\* of double value and is not looked at again.
RECURSIVE PairUp(_)
PairUp(s) ==
    IF Len(s) < 2 THEN s
    ELSE IF s[1] = s[2] THEN <<2 * s[1]>> \o PairUp(Tail(Tail(s)))
    ELSE <<s[1]>> \o PairUp(Tail(s))

\* A line moved toward its index 1.
SlideLine(line) ==
    LET paired == PairUp(SelectSeq(line, LAMBDA x : x # 0))
    IN  paired \o Zeros(4 - Len(paired))

SlideRows(g, toEnd) ==
    [i \in Idx |-> IF toEnd THEN Reverse(SlideLine(Reverse(g[i])))
                   ELSE SlideLine(g[i])]

SlideGrid(g, dir) ==
    IF dir = LEFT THEN SlideRows(g, FALSE)
    ELSE IF dir = RIGHT THEN SlideRows(g, TRUE)
    ELSE IF dir = UP THEN Transpose(SlideRows(Transpose(g), FALSE))
    ELSE Transpose(SlideRows(Transpose(g), TRUE))

\* C1: simulate_move moves each of the 4 lines on its own: the tiles slide
\* toward the side of the move in order, equal neighbours are paired greedily
\* from that side into one tile of double value that is not merged again,
\* and zeros fill the far side; [2,2,2,0] Left is [4,2,0,0], [2,2,2,2] Left
\* is [4,4,0,0], [0,0,2,2] Right is [0,0,0,4].
C1_SimulateMoveSlidesLines ==
    Done("simulate_move") =>
        /\ ret = SlideGrid(Call.entry, Call.dir)
        /\ \A i \in Idx :
              /\ Call.dir = LEFT /\ Call.entry[i] = <<2, 2, 2, 0>>
                    => ret[i] = <<4, 2, 0, 0>>
              /\ Call.dir = LEFT /\ Call.entry[i] = <<2, 2, 2, 2>>
                    => ret[i] = <<4, 4, 0, 0>>
              /\ Call.dir = RIGHT /\ Call.entry[i] = <<0, 0, 2, 2>>
                    => ret[i] = <<0, 0, 0, 4>>

C1_Witness ==
    /\ Done("simulate_move")
    /\ Call.dir = LEFT
    /\ Call.entry[1] = <<2, 2, 2, 0>>
    /\ ret[1] = <<4, 2, 0, 0>>

\* C4: is_move_valid(G, D) is true exactly when simulate_move(G, D) is not G,
\* and get_possible_moves(G) lists, in the order Left, Right, Up, Down and
\* without duplicates, the directions for which is_move_valid holds.
C4_ValidIffChanged ==
    /\ Done("is_move_valid") =>
          (ret <=> simulate_move(Call.entry, Call.dir) # Call.entry)
    /\ Done("get_possible_moves") =>
          /\ ret = SelectSeq(Directions, LAMBDA d : is_move_valid(Call.entry, d))
          /\ Len(ret) <= 4
          /\ \A m \in 1..Len(ret) : \A n \in 1..Len(ret) :
                ret[m] = ret[n] => m = n

C4_Witness ==
    /\ Done("get_possible_moves")
    /\ Len(ret) = 2
    /\ is_move_valid(Call.entry, ret[1])
    /\ \E d \in DirectionSet : ~is_move_valid(Call.entry, d)

GridSum(g) == SumSeq(Flat(g))

\* C7 as stated: the sum of the tiles does not shrink in a move, and a move
\* with exactly one merge raises it by the tile the merge produced.
C7_SumGrowsByMergedTile ==
    Done("simulate_move") =>
        /\ GridSum(ret) >= GridSum(Call.entry)
        /\ \A merges \in {MoveMerges(Call.entry, Call.dir)} :
              Len(merges) = 1 =>
                  /\ GridSum(ret) > GridSum(Call.entry)
                  /\ GridSum(ret) = GridSum(Call.entry) + merges[1]

\* C7 as amended: a move leaves the sum of the tiles as it was, whatever the
\* number of merges (a merge puts one tile 2x in the place of two tiles x).
C7_SumConserved ==
    Done("simulate_move") => GridSum(ret) = GridSum(Call.entry)

C7_Witness ==
    /\ Done("simulate_move")
    /\ Len(MoveMerges(Call.entry, Call.dir)) = 1
    /\ GridSum(ret) = GridSum(Call.entry)
    /\ GridSum(ret) > 0

\* The tiles a cell is given when two grids are compared.
CellValues == TileValues \cup HighTiles

\* C9 as stated: of two grids that differ in one cell only, the one where the
\* cell is empty, with its largest tile in a corner, scores at least as high
\* as the one where the cell holds a tile.
C9_MoreEmptyScoresHigher ==
    Done("evaluate_grid") =>
        \A c \in Idx \X Idx : \A v \in CellValues \ {0} :
            (Call.entry[c[1]][c[2]] = 0 /\ MaxBonus(Call.entry) = 1)
                => \A other \in {SetCell(Call.entry, c, v)} :
                       \A score \in {evaluate_grid(other)} : RGe(ret, score)

\* C9 as amended: of two grids that differ in one cell and have the same
\* monotonicity and the same smoothness, the one with at least as many empty
\* cells and at least as large a corner bonus scores at least as high.
C9_MoreEmptySameRestScoresHigher ==
    Done("evaluate_grid") =>
        \A c \in Idx \X Idx : \A v \in CellValues :
            \A other \in {SetCell(Call.entry, c, v)} :
                (/\ EmptyCount(Call.entry) >= EmptyCount(other)
                 /\ MaxBonus(Call.entry) >= MaxBonus(other)
                 /\ Monotonicity(Call.entry) = Monotonicity(other)
                 /\ Smoothness(Call.entry) = Smoothness(other))
                    => \A score \in {evaluate_grid(other)} : RGe(ret, score)

C9_Witness ==
    /\ Done("evaluate_grid")
    /\ \E c \in Idx \X Idx : \E v \in CellValues :
          \E other \in {SetCell(Call.entry, c, v)} :
             /\ EmptyCount(Call.entry) > EmptyCount(other)
             /\ MaxBonus(Call.entry) >= MaxBonus(other)
             /\ Monotonicity(Call.entry) = Monotonicity(other)
             /\ Smoothness(Call.entry) = Smoothness(other)
             /\ \E score \in {evaluate_grid(other)} : RGt(ret, score)

\* The sum of the scores of a set of <<cell, score>> pairs.
RECURSIVE SumScores(_)
SumScores(S) ==
    IF S = {} THEN Rat(0, 1)
    ELSE The({ RAdd(p[2], SumScores(S \ {p})) : p \in {CHOOSE x \in S : TRUE} })

Greatest(S) == CHOOSE s \in S : \A t \in S : RGe(s, t)

\* The expectimax recursion on grid values, nothing written in place.
RECURSIVE Expectimax(_, _, _)
ExpectimaxOf(g, d, player) ==
    IF d = 0 THEN evaluate_grid(g)
    ELSE IF player
    THEN The({ IF moved = {} THEN evaluate_grid(g)
               ELSE The({ Greatest(scores) :
                          scores \in {{Expectimax(h, d - 1, FALSE) : h \in moved}} }) :
               moved \in {{simulate_move(g, dir) : dir \in DirectionSet} \ {g}} })
    ELSE The({ IF cells = {} THEN evaluate_grid(g)
               ELSE RDiv(SumScores(
                             {<<c, RAdd(RProd(Prob2,
                                              Expectimax(SetCell(g, c, 2), d - 1, TRUE)),
                                        RProd(Prob4,
                                              Expectimax(SetCell(g, c, 4), d - 1, TRUE)))>> :
                                 c \in cells}),
                         Cardinality(cells)) :
               cells \in {{c \in Idx \X Idx : g[c[1]][c[2]] = 0}} })

\* The arguments are values before the recursion reads them.
Expectimax(g, d, player) ==
    The({ ExpectimaxOf(x, y, z) : x \in {g}, y \in {d}, z \in {player} })

\* A call of expectimax_search that is about to return, or has: its frame.
Returning(f) == f.fn = "expectimax_search" /\ f.pc \in {"return", "done"}

\* C5: the value expectimax_search returns is the expectimax value of the
\* grid it was given: evaluate_grid at depth 0; at a player node the greatest
\* value over the directions that change the grid, and evaluate_grid (never
\* minus infinity) when none does; at a chance node evaluate_grid when no cell
\* is empty, and otherwise the mean over the empty cells of 0.9 times the
\* value with a 2 plus 0.1 times the value with a 4.
C5_SearchIsExpectimax ==
    (stack # <<>> /\ Returning(Top)) =>
        /\ Top.val # NegInf
        /\ Top.val = Expectimax(Top.entry, Top.depth, Top.move)
        /\ Top.depth = 0 => Top.val = evaluate_grid(Top.entry)

C5_Witness ==
    /\ Done("expectimax_search")
    /\ Call.depth = 3
    /\ ~Call.move
    /\ Len(Call.cells) >= 2
    /\ ret = Expectimax(Call.entry, 3, FALSE)
    /\ ret # evaluate_grid(Call.entry)

\* C6: simulate_move and expectimax_search return with the grid they were
\* given as it was at the call, at every depth of the recursion.
C6_GridRestored ==
    \A n \in 1..Len(stack) :
        (Returning(stack[n]) \/ (stack[n].fn = "simulate_move"
                                 /\ stack[n].pc \in {"return", "done"}))
            => heap[stack[n].g] = stack[n].entry

C6_Witness ==
    /\ Len(stack) >= 3
    /\ Returning(Top)
    /\ Len(Top.cells) >= 1
    /\ stack[1].fn = "expectimax_search"
    /\ Len(stack[1].cells) >= 1
    /\ heap[Top.g] = Top.entry
    /\ heap[1] # stack[1].entry

\* The move_score of direction d for grid g (line 227).
MoveScore(g, d) == Expectimax(simulate_move(g, d), max_depth, FALSE)

\* For each direction in the order of Directions: does it change g, and the
\* move_score it gets if it does.
MovesValid(g) ==
    [m \in 1..Len(Directions) |-> simulate_move(g, Directions[m]) # g]

MoveScores(g) ==
    <<IF simulate_move(g, LEFT) # g THEN MoveScore(g, LEFT) ELSE NegInf,
      IF simulate_move(g, RIGHT) # g THEN MoveScore(g, RIGHT) ELSE NegInf,
      IF simulate_move(g, UP) # g THEN MoveScore(g, UP) ELSE NegInf,
      IF simulate_move(g, DOWN) # g THEN MoveScore(g, DOWN) ELSE NegInf>>

\* The direction number k changes the grid, scores at least as much as every
\* direction that changes it, and more than every earlier one that does.
FirstBest(valid, scores, k) ==
    /\ valid[k]
    /\ \A m \in 1..Len(Directions) :
          valid[m] =>
              /\ RGe(scores[k], scores[m])
              /\ m < k => RGt(scores[k], scores[m])

\* C2: when some direction changes the grid get_best_move read, it returns the
\* direction that changes it with the greatest expectimax_search score of the
\* moved grid (depth max_depth, chance node), the first of them in the order
\* Left, Right, Up, Down; for the single 2 at (0,0) that is Right or Down.
C2_BestMoveIsFirstGreatest ==
    Done("get_best_move") =>
        \A g \in {Call.entry} : \A valid \in {MovesValid(g)} :
            (\E m \in 1..Len(Directions) : valid[m]) =>
                /\ \A scores \in {MoveScores(g)} :
                      \E k \in 1..Len(Directions) :
                          ret = Directions[k] /\ FirstBest(valid, scores, k)
                /\ g = SingleTile => ret \in {RIGHT, DOWN}

\* Left and Right both change the grid and tie for the greatest score.
C2_Witness ==
    /\ Done("get_best_move")
    /\ ret = LEFT
    /\ \E g \in {Call.entry} : \E valid \in {MovesValid(g)} :
          /\ valid[1] /\ valid[2]
          /\ \E scores \in {MoveScores(g)} :
                /\ scores[1] = scores[2]
                /\ FirstBest(valid, scores, 1)

\* A 4 x 4 grid of non-negative integers.
WellFormed(g) ==
    /\ Shaped(g)
    /\ \A i \in Idx : \A j \in Idx : g[i][j] >= 0

\* How far a call has come: the iteration of its loop and the place in it; a
\* call at its return statement is past every iteration (a loop has at most
\* 16 of them), and one that has returned is past that.
Progress(f) ==
    IF f.pc = "done" THEN 101
    ELSE IF f.pc = "return" THEN 100
    ELSE 4 * f.k + (IF f.pc = "start" THEN 0
                    ELSE IF f.pc \in {"loop", "player", "chance"} THEN 1
                    ELSE IF f.pc \in {"loop_ret", "player_ret", "chance_2"} THEN 2
                    ELSE 3)

\* The stack t is further than the stack s: at the first call where they
\* differ, the call has progressed or has returned.  The stacks are bounded
\* and so is Progress, so no run advances for ever.
Advances(s, t) ==
    \E i \in 1..Len(s) :
        /\ i - 1 <= Len(t)
        /\ \A j \in 1..(i - 1) : Progress(s[j]) = Progress(t[j])
        /\ i <= Len(t) => Progress(s[i]) < Progress(t[i])

\* The guards of the actions of NextBest: the call on top of the stack is at a
\* place one of them starts from (what follows the guard in each action is
\* an assignment).
HasNextStep ==
    \/ stack # <<>> /\ Top.pc = "return"
    \/ \E pc \in {"start", "loop", "loop_ret"} : At("get_best_move", pc)
    \/ \E pc \in {"start", "player", "player_ret", "chance", "chance_2",
                   "chance_4"} : At("expectimax_search", pc)

\* get_best_move has raised nothing, has returned or has a next step, and
\* what it has returned is Left, Right, Up or Down: Left when no direction
\* changes the grid.
BestMoveSafe ==
    WellFormed(get_grid(state_grid)) =>
        /\ error = "none"
        /\ stack # <<>>
        /\ Done("get_best_move") \/ HasNextStep
        /\ Done("get_best_move") =>
              /\ ret \in DirectionSet
              /\ get_possible_moves(Call.entry) = <<>> => ret = LEFT

\* C3: on a 4 x 4 grid of non-negative integers get_best_move raises nothing,
\* runs to its return (it always has a next step, and every step brings it
\* further), and returns Left, Right, Up or Down: Left when no direction
\* changes the grid.
C3_BestMoveTotal ==
    /\ []BestMoveSafe
    /\ [][Advances(stack, stack')]_vars

C3_Witness ==
    /\ Done("get_best_move")
    /\ Call.entry = Checkerboard
    /\ get_possible_moves(Call.entry) = <<>>
    /\ ret = LEFT

\* C8: a grid that is not 4 x 4 or holds a negative number is refused with
\* InvalidGridError where it is read, so every grid the program holds is well
\* formed and no other exception is raised.
C8_MalformedGridRejected ==
    /\ error \in {"none", "InvalidGridError"}
    /\ \A n \in 1..Len(heap) : WellFormed(heap[n])
    /\ ~WellFormed(get_grid(state_grid)) =>
          \A n \in 1..Len(stack) : stack[n].fn # "expectimax_search"

\* C10: in play_game the grid get_best_move reads (a 4 x 4 grid: the short
\* list is C8's case) has a direction that changes it, whatever the page does,
\* so the move sent to the page is never the default of a grid without one.
C10_SearchedGridHasMove ==
    \A n \in 1..Len(stack) :
        (/\ stack[n].fn = "get_best_move"
         /\ stack[n].pc # "start"
         /\ Shaped(heap[stack[n].g]))
            => get_possible_moves(heap[stack[n].g]) # <<>>

====
